---- MODULE Spec2Model ----
(***************************************************************************)
(* A model of app.py of One_Click_Insight: the insight parser              *)
(* (parse_detailed_insights), the chart selector/renderer (plot_chart)     *)
(* and the request handler (analyze) with its model call (query_llama3).   *)
(*                                                                         *)
(* A Python str is a sequence of one-character strings.  A Python dict     *)
(* with the insight keys is a record holding the set of keys that are set  *)
(* ("keys") and one field per key; a key that is not set holds <<>>.       *)
(* An optional value (None or a value) is [some |-> BOOLEAN, v |-> value]. *)
(***************************************************************************)
EXTENDS Naturals, Sequences, FiniteSets, TLC

VARIABLES
    pc,           \* position in analyze / parse_detailed_insights / plot_chart
    file,         \* request.files.get("file"): [present, ext, loadable, table]
    df,           \* the loaded table: [loaded, columns, objects (the columns of dtype object)]
    ai_response,  \* the reply text handed to the parser: [none |-> BOOLEAN, text |-> str]
    llm_failed,   \* whether query_llama3 took its except branch
    lines,        \* text.strip().split("\n")
    idx,          \* index of the next line of the for loop
    current,      \* the parser's record in progress
    insights,     \* the parser's output list
    blocks,       \* the labelled blocks the reply text was written from (SpecBlocks)
    insight,      \* plot_chart's insight argument
    fig,          \* plot_chart's figure: [some, kind, x, y, color]
    grouping,     \* the groupby plot_chart issued: [some, by, agg, of]
    result,       \* plot_chart's return value: [kind, image, error]
    plot_calls,   \* the insights plot_chart has been called with, in order
    response      \* the HTTP response: [status, keys, error, raw, insights, chart, chart_error]

vars == <<pc, file, df, ai_response, llm_failed, lines, idx, current, insights,
          blocks, insight, fig, grouping, result, plot_calls, response>>

-----------------------------------------------------------------------------
(* Bounds *)

MaxLines == 3
MaxBlocks == 2
MaxCols == 2

-----------------------------------------------------------------------------
(* Python str primitives *)

\* str.isspace characters that occur in the modelled texts
Whitespace == {" ", "\t", "\n", "\r"}

Digits == {"0", "1", "2", "3", "4", "5", "6", "7", "8", "9"}

UpperTab == <<"A", "B", "C", "D", "E", "F", "G", "H", "I", "J", "K", "L", "M",
              "N", "O", "P", "Q", "R", "S", "T", "U", "V", "W", "X", "Y", "Z">>

LowerTab == <<"a", "b", "c", "d", "e", "f", "g", "h", "i", "j", "k", "l", "m",
              "n", "o", "p", "q", "r", "s", "t", "u", "v", "w", "x", "y", "z">>

LowerChar(c) ==
    IF \E i \in 1..26 : UpperTab[i] = c
    THEN LowerTab[CHOOSE i \in 1..26 : UpperTab[i] = c]
    ELSE c

\* str.lower()
Lower(s) == [i \in 1..Len(s) |-> LowerChar(s[i])]

\* str.startswith(p)
StartsWith(s, p) == Len(s) >= Len(p) /\ SubSeq(s, 1, Len(p)) = p

RECURSIVE LStrip(_)
LStrip(s) ==
    IF s # <<>> /\ Head(s) \in Whitespace THEN LStrip(Tail(s)) ELSE s

RECURSIVE RStrip(_)
RStrip(s) ==
    IF s # <<>> /\ s[Len(s)] \in Whitespace
    THEN RStrip(SubSeq(s, 1, Len(s) - 1))
    ELSE s

\* str.strip()
Strip(s) == RStrip(LStrip(s))

\* str.find(c) as a 1-based index, 0 when c does not occur
Find(s, c) ==
    IF \E i \in 1..Len(s) : s[i] = c
    THEN CHOOSE i \in 1..Len(s) : s[i] = c /\ \A j \in 1..(i - 1) : s[j] # c
    ELSE 0

\* str.split(sep) for a one-character separator: "".split(sep) is [""]
RECURSIVE Split(_, _)
Split(s, sep) ==
    LET i == Find(s, sep)
    IN  IF i = 0
        THEN <<s>>
        ELSE <<SubSeq(s, 1, i - 1)>> \o Split(SubSeq(s, i + 1, Len(s)), sep)

\* s.split(":", 1)[-1]: the text after the first colon, the whole of s without one
AfterFirstColon(s) ==
    LET i == Find(s, ":")
    IN  IF i = 0 THEN s ELSE SubSeq(s, i + 1, Len(s))

\* s.replace("**", ""): non-overlapping occurrences, left to right
RECURSIVE ReplaceStars(_)
ReplaceStars(s) ==
    IF s = <<>> THEN <<>>
    ELSE IF Len(s) >= 2 /\ s[1] = "*" /\ s[2] = "*"
         THEN ReplaceStars(SubSeq(s, 3, Len(s)))
         ELSE <<s[1]>> \o ReplaceStars(Tail(s))

\* [f(x) for x in xs if p(x)] for f = strip, p = non-empty after strip
RECURSIVE StripNonEmpty(_)
StripNonEmpty(xs) ==
    IF xs = <<>> THEN <<>>
    ELSE IF Strip(Head(xs)) # <<>>
         THEN <<Strip(Head(xs))>> \o StripNonEmpty(Tail(xs))
         ELSE StripNonEmpty(Tail(xs))

-----------------------------------------------------------------------------
(* Labels of the reply format *)

kTitle == <<"t", "i", "t", "l", "e", ":">>
kStars == <<"*", "*">>
kExplanation == <<"e", "x", "p", "l", "a", "n", "a", "t", "i", "o", "n", ":">>
kChart == <<"c", "h", "a", "r", "t", ":">>
kColumns == <<"c", "o", "l", "u", "m", "n", "s", ":">>
kTip == <<"t", "i", "p", ":">>

-----------------------------------------------------------------------------
(* Python dict with the insight keys *)

EmptyDict ==
    [keys |-> {}, title |-> <<>>, explanation |-> <<>>, chart |-> <<>>,
     columns |-> <<>>, tip |-> <<>>]

\* d[k] = v
SetKey(d, k, v) == [d EXCEPT !.keys = @ \cup {k}, ![k] = v]

\* bool(d)
DictTruthy(d) == d.keys # {}

\* bool(d.get("title"))
HasTitle(d) == "title" \in d.keys /\ d.title # <<>>

-----------------------------------------------------------------------------
(* parse_detailed_insights *)

\* the condition of the first if of the loop body
IsNewRecordLine(line) ==
    \/ StartsWith(Lower(line), kTitle)
    \/ StartsWith(Lower(line), kStars)
    \/ /\ line # <<>>
       /\ line[1] \in Digits
       /\ \E i \in 1..3 : i <= Len(line) /\ line[i] = "."

\* a variant of DeriveTitle that leaves the emphasis markers in the title
DeriveTitleKeepStars(line) == Strip(AfterFirstColon(line))

\* line.replace("**", "").split(":", 1)[-1].strip()
DeriveTitle(line) == Strip(AfterFirstColon(ReplaceStars(line)))

\* line.split(":", 1)[-1].strip()
FieldValue(line) == Strip(AfterFirstColon(line))

\* [c.strip() for c in line.split(":", 1)[-1].strip().split(",") if c.strip()]
ColumnsValue(line) == StripNonEmpty(Split(FieldValue(line), ","))

\* the key an elif branch of the loop body sets, "" when no branch matches
FieldKey(line) ==
    IF StartsWith(Lower(line), kExplanation) THEN "explanation"
    ELSE IF StartsWith(Lower(line), kChart) THEN "chart"
    ELSE IF StartsWith(Lower(line), kColumns) THEN "columns"
    ELSE IF StartsWith(Lower(line), kTip) THEN "tip"
    ELSE ""

\* a variant of LoopBody that starts the new record without appending the one in progress
LoopBodyNoFinalize(cur, ins, rawline) ==
    LET line == Strip(rawline)
    IN  IF IsNewRecordLine(line)
        THEN [current  |-> SetKey(EmptyDict, "title", DeriveTitle(line)),
              insights |-> ins]
        ELSE IF FieldKey(line) = "columns"
        THEN [current  |-> SetKey(cur, "columns", ColumnsValue(line)),
              insights |-> ins]
        ELSE IF FieldKey(line) # ""
        THEN [current  |-> SetKey(cur, FieldKey(line), FieldValue(line)),
              insights |-> ins]
        ELSE [current |-> cur, insights |-> ins]

\* one iteration of the for loop, on a raw line of the split
LoopBody(cur, ins, rawline) ==
    LET line == Strip(rawline)
    IN  IF IsNewRecordLine(line)
        THEN [current  |-> SetKey(EmptyDict, "title", DeriveTitle(line)),
              insights |-> IF DictTruthy(cur) THEN Append(ins, cur) ELSE ins]
        ELSE IF FieldKey(line) = "columns"
        THEN [current  |-> SetKey(cur, "columns", ColumnsValue(line)),
              insights |-> ins]
        ELSE IF FieldKey(line) # ""
        THEN [current  |-> SetKey(cur, FieldKey(line), FieldValue(line)),
              insights |-> ins]
        ELSE [current |-> cur, insights |-> ins]

\* the statements after the loop
Finalize(cur, ins) ==
    IF DictTruthy(cur) /\ HasTitle(cur) THEN Append(ins, cur) ELSE ins

\* text.strip().split("\n")
SplitLines(text) == Split(Strip(text), "\n")

RECURSIVE ParseFrom(_, _, _)
ParseFrom(cur, ins, ls) ==
    IF ls = <<>>
    THEN Finalize(cur, ins)
    ELSE LET st == LoopBody(cur, ins, Head(ls))
         IN  ParseFrom(st.current, st.insights, Tail(ls))

\* the whole function, as a value
parse_detailed_insights(text) == ParseFrom(EmptyDict, <<>>, SplitLines(text))

-----------------------------------------------------------------------------
(* Values shared by the specifications *)

None == [some |-> FALSE, v |-> ""]
Some(x) == [some |-> TRUE, v |-> x]

NoTable == [loaded |-> FALSE, columns |-> {}, objects |-> {}]
NoFile == [present |-> FALSE, ext |-> "", loadable |-> FALSE, table |-> NoTable]
NoText == [none |-> FALSE, text |-> <<>>]
NoFig == [some |-> FALSE, kind |-> "", x |-> <<>>, y |-> <<>>, color |-> <<>>]
NoGrouping == [some |-> FALSE, by |-> <<>>, agg |-> "", of |-> <<>>]
NoResult == [kind |-> "", image |-> None, error |-> None]
NoResponse ==
    [status |-> 0, keys |-> {}, error |-> None, raw |-> NoText,
     insights |-> <<>>, chart |-> None, chart_error |-> None]

\* "\n".join(ls)
RECURSIVE JoinLines(_)
JoinLines(ls) ==
    IF ls = <<>> THEN <<>>
    ELSE IF Len(ls) = 1 THEN Head(ls)
    ELSE Head(ls) \o <<"\n">> \o JoinLines(Tail(ls))

-----------------------------------------------------------------------------
(* parse_detailed_insights, statement by statement *)

\* the exception handler of analyze: jsonify({"error": str(e)}), 500
ErrorResponse(status, msg) ==
    [NoResponse EXCEPT !.status = status, !.keys = {"error"}, !.error = Some(msg)]

\* insights = []; current = {}; text.strip().split("\n")
\* (None has no strip: the AttributeError reaches the handler of analyze)
ParseStart ==
    /\ pc = "parse"
    /\ IF ai_response.none
       THEN /\ pc' = "done"
            /\ response' = ErrorResponse(500, "'NoneType' object has no attribute 'strip'")
            /\ UNCHANGED <<lines, idx, current, insights>>
       ELSE /\ lines' = SplitLines(ai_response.text)
            /\ idx' = 1
            /\ current' = EmptyDict
            /\ insights' = <<>>
            /\ pc' = "loop"
            /\ UNCHANGED response
    /\ UNCHANGED <<file, df, ai_response, llm_failed, blocks, insight, fig,
                   grouping, result, plot_calls>>

\* one iteration of: for line in ...
ParseLine ==
    /\ pc = "loop"
    /\ idx <= Len(lines)
    /\ LET st == LoopBody(current, insights, lines[idx])
       IN  /\ current' = st.current
           /\ insights' = st.insights
    /\ idx' = idx + 1
    /\ UNCHANGED <<pc, file, df, ai_response, llm_failed, lines, blocks, insight,
                   fig, grouping, result, plot_calls, response>>

\* if current and current.get("title"): insights.append(current); return insights
ParseReturn ==
    /\ pc = "loop"
    /\ idx > Len(lines)
    /\ insights' = Finalize(current, insights)
    /\ pc' = "parsed"
    /\ UNCHANGED <<file, df, ai_response, llm_failed, lines, idx, current, blocks,
                   insight, fig, grouping, result, plot_calls, response>>

-----------------------------------------------------------------------------
(* SpecParse: the parser on every text of at most MaxLines lines of ReplyLines *)

Sp == <<" ">>
TitleCased == <<"T", "i", "t", "l", "e", ":">>
ExplanationCased == <<"E", "x", "p", "l", "a", "n", "a", "t", "i", "o", "n", ":">>
ColumnsCased == <<"C", "o", "l", "u", "m", "n", "s", ":">>
ChartCased == <<"C", "h", "a", "r", "t", ":">>
TipCased == <<"T", "i", "p", ":">>

ReplyLines ==
    { TitleCased \o <<" ", "a">>,
      TitleCased,
      Sp \o kTitle \o <<"a", ":", "b">> \o Sp,
      kStars \o TitleCased \o <<" ", "b">> \o kStars,
      kStars,
      <<"1", ".", " ", "a">>,
      <<"2", ".", " ", "a", ":", " ", "b">>,
      ExplanationCased \o <<" ", "a", " ">>,
      kChart \o <<"b">>,
      ColumnsCased \o <<" ", "a", ",", " ", ",", "b", " ">>,
      kTip \o <<" ", "1", ".">>,
      <<"a", "b">>,
      <<>> }

Texts ==
    { JoinLines(ls) : ls \in UNION { [1..n -> ReplyLines] : n \in 0..MaxLines } }

InitParse ==
    /\ pc = "parse"
    /\ ai_response \in { [none |-> FALSE, text |-> t] : t \in Texts }
    /\ file = NoFile
    /\ df = NoTable
    /\ llm_failed = FALSE
    /\ lines = <<>>
    /\ idx = 0
    /\ current = EmptyDict
    /\ insights = <<>>
    /\ blocks = <<>>
    /\ insight = EmptyDict
    /\ fig = NoFig
    /\ grouping = NoGrouping
    /\ result = NoResult
    /\ plot_calls = <<>>
    /\ response = NoResponse

NextParse == ParseStart \/ ParseLine \/ ParseReturn

SpecParse == InitParse /\ [][NextParse]_vars

-----------------------------------------------------------------------------
(* Properties of the parser (SpecParse) *)

\* the lines of ls that satisfy the new-record rule
NewRecordLines(ls) == { i \in 1..Len(ls) : IsNewRecordLine(Strip(ls[i])) }

\* a field line that is read before any new-record line
HasOrphanFieldLine(ls) ==
    \E i \in 1..Len(ls) :
        /\ FieldKey(Strip(ls[i])) # ""
        /\ \A j \in 1..i : j \notin NewRecordLines(ls)

\* C1: when parse_detailed_insights returns, every element of the returned
\* sequence has a title that is present and non-empty, whether the record was
\* finalized by a later new-record line or after the last line.
C1_EveryInsightTitled ==
    pc = "parsed" =>
        \A i \in 1..Len(insights) :
            "title" \in insights[i].keys /\ insights[i].title # <<>>

\* C2: when a field line is read before any new-record line, its content is
\* dropped: every returned insight was started by a new-record line (it has a
\* title key) and there are no more insights than new-record lines.
C2_OrphanFieldDropped ==
    (pc = "parsed" /\ HasOrphanFieldLine(lines)) =>
        /\ \A i \in 1..Len(insights) : "title" \in insights[i].keys
        /\ Len(insights) <= Cardinality(NewRecordLines(lines))

\* the text is two lines, each a "title:" line (possibly emphasis-marked) with
\* a non-empty title
IsTitledLine(l) ==
    /\ \/ StartsWith(Lower(Strip(l)), kTitle)
       \/ StartsWith(Lower(Strip(l)), kStars \o kTitle)
    /\ DeriveTitle(Strip(l)) # <<>>

TwoTitleLines == Len(lines) = 2 /\ IsTitledLine(lines[1]) /\ IsTitledLine(lines[2])

OnlyTitle(d) ==
    /\ d.keys = {"title"}
    /\ d.title # <<>>
    /\ d.explanation = <<>> /\ d.chart = <<>> /\ d.columns = <<>> /\ d.tip = <<>>

\* C4: a line that matches the new-record rule (by one trigger or by several)
\* starts exactly one record, which has only a title, and appends the record in
\* progress, if there is one, exactly once; and a text of two title lines with
\* non-empty titles returns exactly two insights, the first with only its title.
C4_OneRecordPerTrigger ==
    /\ [][ (pc = "loop" /\ idx <= Len(lines) /\ IsNewRecordLine(Strip(lines[idx])))
           => /\ current'.keys = {"title"}
              /\ insights' = IF current.keys # {}
                             THEN Append(insights, current)
                             ELSE insights ]_vars
    /\ [] ( (pc = "parsed" /\ TwoTitleLines)
            => /\ Len(insights) = 2
               /\ OnlyTitle(insights[1])
               /\ insights[2].keys = {"title"} )

\* two title lines, the first emphasis-marked as well, have been parsed into two insights
C4_Witness ==
    /\ pc = "parsed"
    /\ TwoTitleLines
    /\ StartsWith(lines[1], kStars)
    /\ Len(insights) = 2

\* ",".join(cols)
RECURSIVE JoinComma(_)
JoinComma(cols) ==
    IF cols = <<>> THEN <<>>
    ELSE IF Len(cols) = 1 THEN Head(cols)
    ELSE Head(cols) \o <<",">> \o JoinComma(Tail(cols))

\* the labelled lines of one insight: a line for each field that is set
SerializeInsight(d) ==
    (IF "title" \in d.keys THEN <<TitleCased \o Sp \o d.title>> ELSE <<>>)
    \o (IF "explanation" \in d.keys THEN <<ExplanationCased \o Sp \o d.explanation>> ELSE <<>>)
    \o (IF "chart" \in d.keys THEN <<kChart \o Sp \o d.chart>> ELSE <<>>)
    \o (IF "columns" \in d.keys THEN <<ColumnsCased \o Sp \o JoinComma(d.columns)>> ELSE <<>>)
    \o (IF "tip" \in d.keys THEN <<kTip \o Sp \o d.tip>> ELSE <<>>)

RECURSIVE SerializeLines(_)
SerializeLines(ins) ==
    IF ins = <<>> THEN <<>>
    ELSE SerializeInsight(Head(ins)) \o SerializeLines(Tail(ins))

\* the serialized form of an insight sequence
Serialize(ins) == JoinLines(SerializeLines(ins))

\* C5: parsing the serialized form of a returned insight sequence returns the
\* same sequence.
C5_ReparseIdempotent ==
    pc = "parsed" => parse_detailed_insights(Serialize(insights)) = insights

-----------------------------------------------------------------------------
(* SpecBlocks: the parser on texts made of at most MaxBlocks labelled blocks *)

\* what follows "Title:" on the line (raw), that text trimmed, and that text
\* trimmed with every "**" removed
TitleChoices ==
    { [raw |-> <<" ", "a">>, trimmed |-> <<"a">>, unstarred |-> <<"a">>],
      [raw |-> <<"a", ":", "b", " ">>, trimmed |-> <<"a", ":", "b">>,
       unstarred |-> <<"a", ":", "b">>],
      [raw |-> <<" ", "a", "*", "*", "b">>, trimmed |-> <<"a", "*", "*", "b">>,
       unstarred |-> <<"a", "b">>],
      [raw |-> <<" ", "*", "*">>, trimmed |-> <<"*", "*">>, unstarred |-> <<>>] }

\* what follows the other four labels (raw) and the values the lines stand for
RestChoices ==
    { [explanation |-> [raw |-> <<" ", "a", " ", "b">>, trimmed |-> <<"a", " ", "b">>],
       chart       |-> [raw |-> <<" ", "b">>, trimmed |-> <<"b">>],
       columns     |-> [raw |-> <<" ", "a", ",", " ", "b">>, pieces |-> << <<"a">>, <<"b">> >>],
       tip         |-> [raw |-> <<" ", "1", ".", " ", "a">>, trimmed |-> <<"1", ".", " ", "a">>]],
      [explanation |-> [raw |-> <<>>, trimmed |-> <<>>],
       chart       |-> [raw |-> <<"*", "*", "b">>, trimmed |-> <<"*", "*", "b">>],
       columns     |-> [raw |-> <<"n", ",", ",", " ", "a", " ", ",">>, pieces |-> << <<"n">>, <<"a">> >>],
       tip         |-> [raw |-> <<"a", ":", "b">>, trimmed |-> <<"a", ":", "b">>]],
      [explanation |-> [raw |-> Sp \o kTitle \o <<" ", "a">>, trimmed |-> kTitle \o <<" ", "a">>],
       chart       |-> [raw |-> <<>>, trimmed |-> <<>>],
       columns     |-> [raw |-> <<" ">>, pieces |-> <<>>],
       tip         |-> [raw |-> <<" ", "\t">>, trimmed |-> <<>>]] }

BlockChoices == { [title |-> t, rest |-> r] : t \in TitleChoices, r \in RestChoices }

BlockLines(b) ==
    << TitleCased \o b.title.raw,
       ExplanationCased \o b.rest.explanation.raw,
       ChartCased \o b.rest.chart.raw,
       ColumnsCased \o b.rest.columns.raw,
       TipCased \o b.rest.tip.raw >>

RECURSIVE BlocksLines(_)
BlocksLines(bs) ==
    IF bs = <<>> THEN <<>> ELSE BlockLines(Head(bs)) \o BlocksLines(Tail(bs))

InitBlocks ==
    /\ pc = "parse"
    /\ blocks \in UNION { [1..n -> BlockChoices] : n \in 1..MaxBlocks }
    /\ ai_response = [none |-> FALSE, text |-> JoinLines(BlocksLines(blocks))]
    /\ file = NoFile
    /\ df = NoTable
    /\ llm_failed = FALSE
    /\ lines = <<>>
    /\ idx = 0
    /\ current = EmptyDict
    /\ insights = <<>>
    /\ insight = EmptyDict
    /\ fig = NoFig
    /\ grouping = NoGrouping
    /\ result = NoResult
    /\ plot_calls = <<>>
    /\ response = NoResponse

SpecBlocks == InitBlocks /\ [][NextParse]_vars

AllKeys == {"title", "explanation", "chart", "columns", "tip"}

\* the insight a block stands for, its title read as field f of the title choice
BlockInsight(b, f) ==
    [keys |-> AllKeys,
     title |-> b.title[f],
     explanation |-> b.rest.explanation.trimmed,
     chart |-> b.rest.chart.trimmed,
     columns |-> b.rest.columns.pieces,
     tip |-> b.rest.tip.trimmed]

\* C3 as claimed: for blocks whose title is non-empty (with and without its
\* emphasis markers), one insight per block, in order, the title being the
\* trimmed text after the first colon of the Title line.
C3_BlocksAsClaimed ==
    (pc = "parsed" /\ \A i \in 1..Len(blocks) :
                        /\ blocks[i].title.trimmed # <<>>
                        /\ blocks[i].title.unstarred # <<>>) =>
        /\ Len(insights) = Len(blocks)
        /\ \A i \in 1..Len(blocks) : insights[i] = BlockInsight(blocks[i], "trimmed")

\* C3 as amended: for blocks whose title is non-empty once every "**" is removed,
\* one insight per block, in order, the title being the trimmed text after the
\* first colon of the Title line with every "**" removed; explanation, chart and
\* tip are the trimmed text after the first colon of their lines and columns is
\* the list of trimmed non-empty comma-separated pieces.
C3_BlocksParsed ==
    (pc = "parsed" /\ \A i \in 1..Len(blocks) : blocks[i].title.unstarred # <<>>) =>
        /\ Len(insights) = Len(blocks)
        /\ \A i \in 1..Len(blocks) : insights[i] = BlockInsight(blocks[i], "unstarred")

\* two blocks have been parsed, one of them with "**" inside its title
C3_Witness ==
    /\ pc = "parsed"
    /\ Len(blocks) = 2
    /\ \A i \in 1..2 : blocks[i].title.unstarred # <<>>
    /\ \E i \in 1..2 : blocks[i].title.trimmed # blocks[i].title.unstarred
    /\ blocks[1] # blocks[2]
    /\ Len(insights) = 2

-----------------------------------------------------------------------------
(* plot_chart *)

kCount == <<"c", "o", "u", "n", "t">>
MissingColumns == "Missing or invalid columns"

\* not cols or any(c not in df.columns for c in cols)
ColumnsInvalid(table, cols) ==
    cols = <<>> \/ \E i \in 1..Len(cols) : cols[i] \notin table.columns

\* df[c].dtype == 'object'
IsObject(table, c) == c \in table.objects

\* return None, "Missing or invalid columns" / return None, str(e)
ErrorReturn(msg) == [kind |-> "pair", image |-> None, error |-> Some(msg)]

\* a variant of the except clause that hands back a bare message, not a pair
ExceptReturnBare(msg) == [kind |-> "none", image |-> None, error |-> Some(msg)]

\* except Exception as e: return None, str(e)
ExceptReturn(msg) == ErrorReturn(msg)

\* base64.b64encode(buffer.getvalue()).decode() of the PNG of a figure
Encode(f) == f.kind

\* return encoded, None
ImageReturn(f) == [kind |-> "pair", image |-> Some(Encode(f)), error |-> None]

\* falling off the end of the function: the caller receives None, not a pair
FallThrough == [kind |-> "none", image |-> None, error |-> None]

\* col1, col2 and the if/else tree that builds fig, with the groupby it issues
SelectFigFrom(table, cols) ==
    LET col1 == cols[1]
        has2 == Len(cols) > 1 /\ cols[2] # <<>>     \* if col2: (None and "" are falsy)
        col2 == IF Len(cols) > 1 THEN cols[2] ELSE <<>>
    IN  IF has2
        THEN IF IsObject(table, col1) /\ IsObject(table, col2)
             THEN [fig |-> [some |-> TRUE, kind |-> "bar", x |-> col1, y |-> kCount,
                            color |-> col2],
                   grouping |-> [some |-> TRUE, by |-> <<col1, col2>>, agg |-> "size",
                                 of |-> <<>>]]
             ELSE IF ~IsObject(table, col1) /\ ~IsObject(table, col2)
             THEN [fig |-> [some |-> TRUE, kind |-> "scatter", x |-> col1, y |-> col2,
                            color |-> <<>>],
                   grouping |-> NoGrouping]
             ELSE [fig |-> [some |-> TRUE, kind |-> "bar", x |-> col1, y |-> col2,
                            color |-> <<>>],
                   grouping |-> [some |-> TRUE, by |-> <<col1>>, agg |-> "mean",
                                 of |-> col2]]
        ELSE IF IsObject(table, col1)
             THEN [fig |-> [some |-> TRUE, kind |-> "bar", x |-> col1, y |-> kCount,
                            color |-> <<>>],
                   grouping |-> [some |-> TRUE, by |-> <<col1>>, agg |-> "value_counts",
                                 of |-> <<>>]]
             ELSE [fig |-> [some |-> TRUE, kind |-> "histogram", x |-> col1, y |-> <<>>,
                            color |-> <<>>],
                   grouping |-> NoGrouping]

\* a variant of SelectFig that lets the insight's chart hint pick the chart type
SelectFigByHint(table, ins) ==
    LET sel == SelectFigFrom(table, ins.columns)
    IN  IF "chart" \in ins.keys /\ ins.chart = <<"s", "c", "a", "t", "t", "e", "r">>
        THEN [sel EXCEPT !.fig.kind = "scatter"]
        ELSE sel

\* cols = insight.get("columns", []) and the selection on it
SelectFig(table, ins) == SelectFigFrom(table, ins.columns)

\* str(e) of the exceptions pandas, plotly and the image export raise
ErrMessages == {"Could not convert string to numeric", "Image export failed", ""}

\* def plot_chart(df, insight): cols = insight.get("columns", []); the validation
PlotCall ==
    /\ pc = "plot_call"
    /\ plot_calls' = Append(plot_calls, insight)
    /\ IF ColumnsInvalid(df, insight.columns)
       THEN /\ result' = ErrorReturn(MissingColumns)
            /\ pc' = "plot_done"
       ELSE /\ result' = result
            /\ pc' = "plot_select"
    /\ UNCHANGED <<file, df, ai_response, llm_failed, lines, idx, current, insights,
                   blocks, insight, fig, grouping, response>>

\* the if/else tree: the groupby and the plotly call succeed or raise
PlotSelect ==
    /\ pc = "plot_select"
    /\ LET sel == SelectFig(df, insight)
       IN  /\ grouping' = sel.grouping
           /\ \E raises \in BOOLEAN, msg \in ErrMessages :
                IF raises
                THEN /\ fig' = fig
                     /\ result' = ExceptReturn(msg)
                     /\ pc' = "plot_done"
                ELSE /\ msg = ""
                     /\ fig' = sel.fig
                     /\ result' = result
                     /\ pc' = "plot_render"
    /\ UNCHANGED <<file, df, ai_response, llm_failed, lines, idx, current, insights,
                   blocks, insight, plot_calls, response>>

\* if fig: write_image, b64encode, return encoded, None; write_image may raise
PlotRender ==
    /\ pc = "plot_render"
    /\ IF fig.some
       THEN \E raises \in BOOLEAN, msg \in ErrMessages :
                IF raises
                THEN result' = ExceptReturn(msg)
                ELSE msg = "" /\ result' = ImageReturn(fig)
       ELSE result' = FallThrough
    /\ pc' = "plot_done"
    /\ UNCHANGED <<file, df, ai_response, llm_failed, lines, idx, current, insights,
                   blocks, insight, fig, grouping, plot_calls, response>>

-----------------------------------------------------------------------------
(* SpecChart: plot_chart on every table over ColNames and every insight with  *)
(* at most MaxCols columns                                                    *)

ColNames == { <<"a">>, <<"b">>, <<"n">>, <<"m">> }

Tables ==
    UNION { { [loaded |-> TRUE, columns |-> cs, objects |-> os] : os \in SUBSET cs } :
              cs \in SUBSET ColNames }

ChartHints == { <<"b", "a", "r">>, <<"s", "c", "a", "t", "t", "e", "r">> }

ColumnLists == UNION { [1..n -> ColNames] : n \in 0..MaxCols }

ChartInsights ==
    LET base == SetKey(EmptyDict, "title", <<"a">>)
    IN  { base }
        \cup { SetKey(base, "columns", cs) : cs \in ColumnLists }
        \cup { SetKey(SetKey(base, "chart", h), "columns", cs) :
                 h \in ChartHints, cs \in ColumnLists }

InitChart ==
    /\ pc = "plot_call"
    /\ df \in Tables
    /\ insight \in ChartInsights
    /\ file = NoFile
    /\ ai_response = NoText
    /\ llm_failed = FALSE
    /\ lines = <<>>
    /\ idx = 0
    /\ current = EmptyDict
    /\ insights = <<>>
    /\ blocks = <<>>
    /\ fig = NoFig
    /\ grouping = NoGrouping
    /\ result = NoResult
    /\ plot_calls = <<>>
    /\ response = NoResponse

NextChart == PlotCall \/ PlotSelect \/ PlotRender

SpecChart == InitChart /\ [][NextChart]_vars

-----------------------------------------------------------------------------
(* Properties of plot_chart (SpecChart) *)

\* the first two named columns exist and exactly one of them is numeric
MixedPair(table, cols) ==
    /\ Len(cols) >= 2
    /\ ~ColumnsInvalid(table, cols)
    /\ IsObject(table, cols[1]) # IsObject(table, cols[2])

\* C6: with two existing columns, one numeric and one categorical, the data is
\* grouped by the categorical column and the mean is taken of the numeric
\* column, whichever of the two is named first.
C6_GroupsByCategorical ==
    (grouping.some /\ MixedPair(df, insight.columns)) =>
        /\ grouping.agg = "mean"
        /\ Len(grouping.by) = 1
        /\ IsObject(df, grouping.by[1])
        /\ ~IsObject(df, grouping.of)

\* the chart type the selection policy gives for the claim's four cases, "" otherwise
PolicyKind(table, cols) ==
    IF Len(cols) >= 2
    THEN IF IsObject(table, cols[1]) /\ IsObject(table, cols[2]) THEN "bar"
         ELSE IF ~IsObject(table, cols[1]) /\ ~IsObject(table, cols[2]) THEN "scatter"
         ELSE ""
    ELSE IF IsObject(table, cols[1]) THEN "bar" ELSE "histogram"

\* C7: empty columns or a named column absent from the table gives
\* (absent, "Missing or invalid columns") with no grouping and no figure;
\* otherwise the figure built is the one the column types select (grouped bar
\* for two categorical columns, scatter for two numeric, frequency bar for one
\* categorical, histogram for one numeric), whatever the chart hint says.
C7_SelectionIgnoresHint ==
    /\ (pc \in {"plot_select", "plot_render", "plot_done"}
        /\ ColumnsInvalid(df, insight.columns))
         => /\ pc = "plot_done"
            /\ result = [kind |-> "pair", image |-> None, error |-> Some(MissingColumns)]
            /\ ~fig.some
            /\ ~grouping.some
    /\ (pc \in {"plot_select", "plot_render", "plot_done"}
        /\ ~ColumnsInvalid(df, insight.columns))
         => /\ result.error # Some(MissingColumns)
            /\ (pc = "plot_render" => fig.some)
            /\ (fig.some /\ PolicyKind(df, insight.columns) # "")
                 => /\ fig.kind = PolicyKind(df, insight.columns)
                    /\ fig.x = insight.columns[1]
                    /\ (fig.color # <<>>) =
                         (Len(insight.columns) >= 2
                          /\ IsObject(df, insight.columns[1])
                          /\ IsObject(df, insight.columns[2]))

\* a bar chart was rendered for one categorical column although the hint said scatter
C7_Witness ==
    /\ pc = "plot_done"
    /\ "chart" \in insight.keys
    /\ insight.chart = <<"s", "c", "a", "t", "t", "e", "r">>
    /\ Len(insight.columns) = 1
    /\ fig.some /\ fig.kind = "bar"
    /\ result.image = Some("bar")

\* C8: every return of plot_chart is a pair in which exactly one of image and
\* error is present; a failure of the grouping or of the rendering returns
\* (absent, message).
C8_ExactlyOneOfImageAndError ==
    pc = "plot_done" =>
        /\ result.kind = "pair"
        /\ result.image.some # result.error.some
        /\ (result.image.some => fig.some /\ result.image.v = Encode(fig))

\* the rendering of a selected figure failed and plot_chart returned (absent, message)
C8_Witness ==
    /\ pc = "plot_done"
    /\ fig.some
    /\ ~result.image.some
    /\ result.error = Some("Image export failed")

-----------------------------------------------------------------------------
(* analyze and query_llama3 *)

\* a variant of NoInsightsResponse that echoes the stripped reply
NoInsightsResponseStripped(reply) ==
    [NoResponse EXCEPT !.status = 500, !.keys = {"error", "raw"},
                       !.error = Some("No insights extracted"),
                       !.raw = [reply EXCEPT !.text = Strip(@)]]

\* jsonify({"error": "No insights extracted", "raw": ai_response}), 500
NoInsightsResponse(reply) ==
    [NoResponse EXCEPT !.status = 500, !.keys = {"error", "raw"},
                       !.error = Some("No insights extracted"), !.raw = reply]

\* a variant of SuccessResponse that reports a chart error as a server error
SuccessResponseFailOnChartError(ins, res) ==
    [NoResponse EXCEPT !.status = IF res.error.some THEN 500 ELSE 200,
                       !.keys = {"insights", "chart", "error"},
                       !.insights = ins, !.chart = res.image, !.chart_error = res.error]

\* jsonify({"insights": insights, "chart": chart, "error": error}) (status 200)
SuccessResponse(ins, res) ==
    [NoResponse EXCEPT !.status = 200, !.keys = {"insights", "chart", "error"},
                       !.insights = ins, !.chart = res.image, !.chart_error = res.error]

\* f"<cross mark> Groq API Error: {str(e)}"; the one character U+274C is written "U+274C"
GroqError(msg) ==
    <<"U+274C", " ", "G", "r", "o", "q", " ", "A", "P", "I", " ", "E", "r", "r", "o", "r", ":", " ">>
    \o msg

\* str(e) of a failed request to the model API
ApiErrors == { <<"4", "0", "1">>, <<"t", "i", "m", "e", "o", "u", "t">> }

\* the contents the model API replies with (None: a reply whose content is null)
ModelReplies ==
    { [none |-> TRUE, text |-> <<>>] } \cup
    { [none |-> FALSE, text |-> t] : t \in
        { JoinLines(<< TitleCased \o <<" ", "a">>,
                       ExplanationCased \o <<" ", "b">>,
                       ChartCased \o <<" ", "s", "c", "a", "t", "t", "e", "r">>,
                       ColumnsCased \o <<" ", "a", ",", " ", "n">>,
                       TipCased \o <<" ", "b">> >>),
          JoinLines(<< TitleCased \o <<" ", "a">>, ColumnsCased \o <<" ", "n", ",", "a">> >>),
          JoinLines(<< TitleCased \o <<" ", "a">>, ColumnsCased \o <<" ", "a", ",", "b">> >>),
          JoinLines(<< TitleCased \o <<" ", "a">>, ColumnsCased \o <<" ", "z">> >>),
          TitleCased \o <<" ", "a">>,
          JoinLines(<< ExplanationCased \o <<" ", "a">>, TitleCased \o <<" ", "b">>,
                       ColumnsCased \o <<" ", "n">> >>),
          JoinLines(<< <<"1", ".", " ", "a">>, ColumnsCased \o <<"n">>,
                       <<"2", ".", " ", "b", ":", " ", "a">>, ColumnsCased \o <<"a", ",", "b">> >>),
          JoinLines(<< kStars, kStars >>),
          <<" ", "a", "b", "\n">>,
          <<>> } }

\* file = request.files.get("file"); the extension test; pd.read_csv / pd.read_excel
AnalyzeLoad ==
    /\ pc = "analyze"
    /\ IF ~file.present
       THEN /\ response' = ErrorResponse(400, "No file uploaded")
            /\ pc' = "done"
            /\ df' = df
       ELSE IF file.ext \notin {"csv", "xlsx"}
       THEN /\ response' = ErrorResponse(400, "Unsupported file type")
            /\ pc' = "done"
            /\ df' = df
       ELSE IF ~file.loadable
       THEN /\ response' = ErrorResponse(500, "Error tokenizing data")
            /\ pc' = "done"
            /\ df' = df
       ELSE /\ df' = file.table
            /\ pc' = "summary"
            /\ response' = response
    /\ UNCHANGED <<file, ai_response, llm_failed, lines, idx, current, insights,
                   blocks, insight, fig, grouping, result, plot_calls>>

\* summary = df.describe(include='all').to_string(), which raises on a table
\* without columns; then the prompt is built
AnalyzeSummary ==
    /\ pc = "summary"
    /\ IF df.columns = {}
       THEN /\ response' = ErrorResponse(500, "Cannot describe a DataFrame without columns")
            /\ pc' = "done"
       ELSE /\ response' = response
            /\ pc' = "query"
    /\ UNCHANGED <<file, df, ai_response, llm_failed, lines, idx, current, insights,
                   blocks, insight, fig, grouping, result, plot_calls>>

\* ai_response = query_llama3(prompt): the content of the reply, or the error
\* string of the except clause when the request or the reply fails
QueryLlama3 ==
    /\ pc = "query"
    /\ \E failed \in BOOLEAN :
         /\ llm_failed' = failed
         /\ IF failed
            THEN \E msg \in ApiErrors :
                    ai_response' = [none |-> FALSE, text |-> GroqError(msg)]
            ELSE ai_response' \in ModelReplies
    /\ pc' = "parse"
    /\ UNCHANGED <<file, df, lines, idx, current, insights, blocks, insight, fig,
                   grouping, result, plot_calls, response>>

\* if not insights: return ..., 500; otherwise the call plot_chart(df, insights[0])
AnalyzeCheck ==
    /\ pc = "parsed"
    /\ IF insights = <<>>
       THEN /\ response' = NoInsightsResponse(ai_response)
            /\ pc' = "done"
            /\ insight' = insight
       ELSE /\ insight' = insights[1]
            /\ pc' = "plot_call"
            /\ response' = response
    /\ UNCHANGED <<file, df, ai_response, llm_failed, lines, idx, current, insights,
                   blocks, fig, grouping, result, plot_calls>>

\* chart, error = plot_chart(...): unpacking anything but a pair raises, and the
\* handler answers 500; otherwise the 200 response
AnalyzeRespond ==
    /\ pc = "plot_done"
    /\ response' = IF result.kind = "pair"
                   THEN SuccessResponse(insights, result)
                   ELSE ErrorResponse(500, "cannot unpack non-iterable NoneType object")
    /\ pc' = "done"
    /\ UNCHANGED <<file, df, ai_response, llm_failed, lines, idx, current, insights,
                   blocks, insight, fig, grouping, result, plot_calls>>

-----------------------------------------------------------------------------
(* Spec: one request to /analyze, from the upload to the response *)

UploadedTables ==
    { [loaded |-> TRUE, columns |-> { <<"a">>, <<"b">>, <<"n">>, <<"m">> },
       objects |-> { <<"a">>, <<"b">> }],
      [loaded |-> TRUE, columns |-> { <<"a">>, <<"n">> }, objects |-> { <<"a">> }],
      [loaded |-> TRUE, columns |-> {}, objects |-> {}] }

Uploads ==
    { NoFile }
    \cup { [present |-> TRUE, ext |-> e, loadable |-> TRUE, table |-> t] :
             e \in {"csv", "xlsx", "txt"}, t \in UploadedTables }
    \cup { [present |-> TRUE, ext |-> e, loadable |-> FALSE, table |-> NoTable] :
             e \in {"csv", "xlsx", "txt"} }

Init ==
    /\ pc = "analyze"
    /\ file \in Uploads
    /\ df = NoTable
    /\ ai_response = NoText
    /\ llm_failed = FALSE
    /\ lines = <<>>
    /\ idx = 0
    /\ current = EmptyDict
    /\ insights = <<>>
    /\ blocks = <<>>
    /\ insight = EmptyDict
    /\ fig = NoFig
    /\ grouping = NoGrouping
    /\ result = NoResult
    /\ plot_calls = <<>>
    /\ response = NoResponse

Next ==
    \/ AnalyzeLoad
    \/ AnalyzeSummary
    \/ QueryLlama3
    \/ ParseStart
    \/ ParseLine
    \/ ParseReturn
    \/ AnalyzeCheck
    \/ PlotCall
    \/ PlotSelect
    \/ PlotRender
    \/ AnalyzeRespond

Spec == Init /\ [][Next]_vars

-----------------------------------------------------------------------------
(* Properties of analyze (Spec) *)

\* the status the request's inputs call for: 400 without a file or with an
\* unsupported extension; 500 for a load failure, an unhandled exception (a
\* table that cannot be described, a reply that is not text) or a reply that
\* parses to zero insights; 200 otherwise
StatusOfInputs ==
    IF ~file.present THEN 400
    ELSE IF file.ext \notin {"csv", "xlsx"} THEN 400
    ELSE IF ~file.loadable THEN 500
    ELSE IF file.table.columns = {} THEN 500
    ELSE IF ai_response.none THEN 500
    ELSE IF parse_detailed_insights(ai_response.text) = <<>> THEN 500
    ELSE 200

\* C9: the response is non-200 exactly for a missing file or an unsupported
\* extension (400) and for a load failure, zero insights or an unhandled
\* exception (500); a failed model call or a failed chart step alone does not
\* change the status: with at least one insight parsed and an error returned by
\* plot_chart, the response is 200 with all insights, chart null and error set
\* to the message.
C9_ChartFailureStays200 ==
    pc = "done" =>
        /\ response.status = StatusOfInputs
        /\ (plot_calls # <<>> /\ result.error.some)
             => /\ response.status = 200
                /\ response.keys = {"insights", "chart", "error"}
                /\ response.insights = parse_detailed_insights(ai_response.text)
                /\ response.insights # <<>>
                /\ response.chart = None
                /\ response.chart_error = result.error

\* the export of the chart failed and the request was answered 200 with two insights
C9_Witness ==
    /\ pc = "done"
    /\ result.error = Some("Image export failed")
    /\ response.status = 200
    /\ Len(response.insights) = 2
    /\ response.chart = None

\* C10: when the reply text parses to zero insights the response is a 500 with
\* an error and with raw equal to the reply text as received, and plot_chart was
\* not called; plot_chart is called only after a non-empty insight sequence was
\* parsed, at most once, and with its first element.
C10_ZeroInsightsEchoRaw ==
    /\ (pc = "done" /\ lines # <<>> /\ parse_detailed_insights(ai_response.text) = <<>>)
         => /\ response.status = 500
            /\ response.keys = {"error", "raw"}
            /\ response.error.some
            /\ response.raw = ai_response
            /\ plot_calls = <<>>
    /\ (pc \in {"analyze", "summary", "query", "parse", "loop", "parsed", "plot_call"})
         => plot_calls = <<>>
    /\ plot_calls # <<>>
         => /\ insights # <<>>
            /\ insights = parse_detailed_insights(ai_response.text)
            /\ plot_calls = <<insights[1]>>

\* the model call failed, its error string parsed to nothing and was echoed as raw
C10_Witness ==
    /\ pc = "done"
    /\ llm_failed
    /\ response.status = 500
    /\ "raw" \in response.keys
    /\ response.raw = ai_response
    /\ ai_response.text # <<>>

====
